---- MODULE Spec2Model ----
(***************************************************************************)
(* The netlab echo service: the TCP and TLS echo servers (accept loop and  *)
(* one session handler thread per accepted connection) and the TCP and TLS *)
(* client drivers, joined by one duplex byte stream per connection.        *)
(*                                                                         *)
(* Sources: src/core/netlab/tcp_server.py, tls_server.py, tcp_client.py,   *)
(* tls_client.py.                                                          *)
(***************************************************************************)
EXTENDS Integers, Sequences, FiniteSets, TLC

(* ------------------------------ bounds -------------------------------- *)
\* Number of client processes (one connection each).
NConn == 2
\* Lines of user input the client drivers read, all together, before every
\* input() blocks for good.
MaxInputs == 2
\* Longest line of user input, in characters.
MaxMsgLen == 1
\* recv(4096): the largest chunk one read returns, scaled down so that a
\* message can be larger than one chunk.
BUFSIZE == 2
\* Bytes one direction of a connection holds in flight (kernel buffers).
Cap == 2

Conn == 1..NConn

(* ------------------------------ helpers ------------------------------- *)
Min(a, b) == IF a < b THEN a ELSE b

Take(s, n) == SubSeq(s, 1, n)

Drop(s, n) == SubSeq(s, n + 1, Len(s))

IsPrefix(a, b) == Len(a) <= Len(b) /\ Take(b, Len(a)) = a

RECURSIVE Flat(_)
Flat(chunks) == IF chunks = <<>> THEN <<>> ELSE Head(chunks) \o Flat(Tail(chunks))

\* The characters a line of input is made of: one ASCII, one not.
Char == {"a", "e_acute"}

\* str.encode("utf-8") of one character.
Utf8(c) == IF c = "a" THEN <<97>> ELSE <<195, 169>>

RECURSIVE Encode(_)
Encode(m) == IF m = <<>> THEN <<>> ELSE Utf8(Head(m)) \o Encode(Tail(m))

\* bytes.decode("utf-8") succeeds (strict): the bytes are whole characters.
RECURSIVE Decodable(_)
Decodable(b) ==
    IF b = <<>> THEN TRUE
    ELSE IF Head(b) = 97 THEN Decodable(Tail(b))
    ELSE IF Head(b) = 195 /\ Len(b) >= 2 /\ b[2] = 169 THEN Decodable(Drop(b, 2))
    ELSE FALSE

\* The lines input() can return.
Lines == UNION {[1..n -> Char] : n \in 0..MaxMsgLen}

\* A line of input that is longer than the transport holds in flight in both
\* directions together: input() puts no limit on the length of a line.
LongLine == [k \in 1..(2 * Cap + 2) |-> "a"]

VARIABLES
    layer,      \* "tcp" | "tls": which server/client pair runs
    \* --- server main thread
    spc,        \* "start" | "loaded" | "accept" | "wrap" | "wrapfail" | "exited"
    listening,  \* the listening socket is bound, listening and not closed
    backlog,    \* established connections waiting for accept()
    cur,        \* the connection wrap_socket() is handshaking on (0: none)
    sexit,      \* the server's exit code (-1: still running)
    swhy,       \* what ended the server's main ("none": still running)
    \* --- session handler threads, one per accepted connection
    hpc,        \* "none" | "recv" | "send" | "closed" | "killed"
    hdata,      \* the handler's local `data`, what sendall() has left to write
    hexit,      \* how the handler left its loop
    hs,         \* the server's TLS handshake on the connection
    scloses,    \* close() calls the server program made on the connection
    sdisc,      \* disconnect events the server logged for the connection
    started,    \* handler threads started for the connection
    \* --- client drivers
    cpc,        \* "start" | "connect" | "handshake" | "silent" | "prompt" | "send" |
                \* "recv" | "exited"
    message,    \* the driver's local `message`
    cpend,      \* what the client's sendall() has left to write
    nInputs,    \* lines read so far
    cexit,      \* the client's exit code (-1: still running)
    cout,       \* the last report the client printed
    ccloses,    \* close() calls the client program made on its socket
    cerr,       \* the exception that ended the driver before its message loop
    \* --- transport, per connection
    link,       \* "none" | "up" | "rst" (aborted) | "pipe" (RST after the FIN)
    c2s, s2c,   \* bytes in flight, client to server and back
    cfin, sfin, \* the client's / the server's endpoint is closed
    \* --- history
    sent,       \* bytes the client's sendall() handed to the transport
    rcvd,       \* the chunks the handler's recv() calls returned, in order
    echoed,     \* bytes the handler wrote back on this connection
    wsrc,       \* the connections whose reads were written to this connection
    crcvd       \* bytes the client read

srv == <<spc, listening, backlog, cur, sexit, swhy>>
hnd == <<hpc, hdata, hexit, hs, scloses, sdisc, started>>
cli == <<cpc, message, cpend, nInputs, cexit, cout, ccloses, cerr>>
net == <<link, c2s, s2c, cfin, sfin>>
hist == <<sent, rcvd, echoed, wsrc, crcvd>>
vars == <<layer, srv, hnd, cli, net, hist>>

Init ==
    /\ layer \in {"tcp", "tls"}
    /\ spc = "start" /\ listening = FALSE /\ backlog = <<>> /\ cur = 0
    /\ sexit = -1 /\ swhy = "none"
    /\ hpc = [i \in Conn |-> "none"]
    /\ hdata = [i \in Conn |-> <<>>]
    /\ hexit = [i \in Conn |-> "none"]
    /\ hs = [i \in Conn |-> "none"]
    /\ scloses = [i \in Conn |-> 0]
    /\ sdisc = [i \in Conn |-> 0]
    /\ started = [i \in Conn |-> 0]
    /\ cpc = [i \in Conn |-> "start"]
    /\ message = [i \in Conn |-> <<>>]
    /\ cpend = [i \in Conn |-> <<>>]
    /\ nInputs = [i \in Conn |-> 0]
    /\ cexit = [i \in Conn |-> -1]
    /\ cout = [i \in Conn |-> "none"]
    /\ ccloses = [i \in Conn |-> 0]
    /\ cerr = [i \in Conn |-> "none"]
    /\ link = [i \in Conn |-> "none"]
    /\ c2s = [i \in Conn |-> <<>>]
    /\ s2c = [i \in Conn |-> <<>>]
    /\ cfin = [i \in Conn |-> FALSE]
    /\ sfin = [i \in Conn |-> FALSE]
    /\ sent = [i \in Conn |-> <<>>]
    /\ rcvd = [i \in Conn |-> <<>>]
    /\ echoed = [i \in Conn |-> <<>>]
    /\ wsrc = [i \in Conn |-> {}]
    /\ crcvd = [i \in Conn |-> <<>>]

(* --------------------------- transport ------------------------------- *)
\* One endpoint of a connection as close() sees it: whether it is closed
\* already, the state of the connection, whether received data is unread.
ServerEndpoint(i) == [closed |-> sfin[i], link |-> link[i], unread |-> c2s[i] # <<>>]

ClientEndpoint(i) == [closed |-> cfin[i], link |-> link[i], unread |-> s2c[i] # <<>>]

\* Faulty variant of SocketClose: close() of a closed socket raises (EBADF).
SocketCloseStrict(ep) ==
    [closed |-> TRUE,
     link |-> IF ~ep.closed /\ ep.unread /\ ep.link = "up" THEN "rst" ELSE ep.link,
     raised |-> ep.closed]

\* socket.close(): the endpoint afterwards and whether the call raised.
\* Closing an open endpoint with unread data aborts the connection (RST)
\* instead of ending it in order (FIN); closing a closed (or detached) socket
\* does nothing; close() never raises.
SocketClose(ep) ==
    [closed |-> TRUE,
     link |-> IF ~ep.closed /\ ep.unread /\ ep.link = "up" THEN "rst" ELSE ep.link,
     raised |-> FALSE]

\* close() of the server's endpoint of connection i.
ServerEndpointClose(i) ==
    /\ sfin' = [sfin EXCEPT ![i] = SocketClose(ServerEndpoint(i)).closed]
    /\ link' = [link EXCEPT ![i] = SocketClose(ServerEndpoint(i)).link]

\* close() of the client's endpoint of connection i.
ClientEndpointClose(i) ==
    /\ cfin' = [cfin EXCEPT ![i] = SocketClose(ClientEndpoint(i)).closed]
    /\ link' = [link EXCEPT ![i] = SocketClose(ClientEndpoint(i)).link]

(* ------------------------- session handler --------------------------- *)
\* Faulty variant of SendTarget: the handlers write to one shared, module-level socket.
SendTargetShared(i) == 1

\* handle_client: the socket the handler of connection i writes its echo to.
SendTarget(i) == i

\* handle_client: the chunk sizes one recv(4096) can return with n bytes queued.
RecvSizes(n) == 1..Min(n, BUFSIZE)

\* Faulty variant of EchoData: the handler echoes the text it printed,
\* data.decode("utf-8", errors="replace").encode("utf-8"), instead of the bytes.
EchoDataDecoded(data) == IF Decodable(data) THEN data ELSE <<239, 191, 189>>

\* handle_client: sendall(data) writes the bytes recv() returned, unchanged.
EchoData(data) == data

\* Faulty variant of MainClosesAfterStart: the accept loop closes its
\* reference to the socket once the thread is started.
MainClosesAfterStartOnce(i) == 1

\* main: close() calls of the accept loop on the connection after
\* thread.start(): none, the loop goes straight back to accept().
MainClosesAfterStart(i) == 0

\* threading.Thread(target=handle_client, ...).start(), to the end of the
\* loop body.
StartHandler(i) ==
    /\ hpc' = [hpc EXCEPT ![i] = "recv"]
    /\ hdata' = [hdata EXCEPT ![i] = <<>>]
    /\ hexit' = [hexit EXCEPT ![i] = "none"]
    /\ started' = [started EXCEPT ![i] = @ + 1]
    /\ scloses' = [scloses EXCEPT ![i] = @ + MainClosesAfterStart(i)]
    /\ IF MainClosesAfterStart(i) > 0
         THEN ServerEndpointClose(i)
         ELSE UNCHANGED <<sfin, link>>

\* handle_client: the disconnect events logged on the way out of the loop:
\* "disconnected" after the zero-byte read, "Connection reset by" in the
\* except clause; `finally` logs nothing.
DisconnectReports(why) == IF why \in {"eof", "reset"} THEN 1 ELSE 0

\* Faulty variant of HandlerCloses: the handler has no `finally` and never closes.
HandlerNeverCloses(i) == 0

\* handle_client: every way out of the loop runs `finally: socket.close()`.
HandlerCloses(i) == 1

HandlerExit(i, why) ==
    /\ hpc' = [hpc EXCEPT ![i] = "closed"]
    /\ hexit' = [hexit EXCEPT ![i] = why]
    /\ hdata' = [hdata EXCEPT ![i] = <<>>]
    /\ scloses' = [scloses EXCEPT ![i] = @ + HandlerCloses(i)]
    /\ sdisc' = [sdisc EXCEPT ![i] = @ + DisconnectReports(why)]
    /\ IF HandlerCloses(i) > 0
         THEN ServerEndpointClose(i)
         ELSE UNCHANGED <<sfin, link>>

\* data = socket.recv(4096), data non-empty
HRecv(i) ==
    /\ hpc[i] = "recv"
    /\ c2s[i] # <<>>
    /\ \E k \in RecvSizes(Len(c2s[i])) :
         /\ hdata' = [hdata EXCEPT ![i] = EchoData(Take(c2s[i], k))]
         /\ rcvd' = [rcvd EXCEPT ![i] = Append(@, Take(c2s[i], k))]
         /\ c2s' = [c2s EXCEPT ![i] = Drop(@, k)]
    /\ hpc' = [hpc EXCEPT ![i] = "send"]
    /\ UNCHANGED <<layer, srv, hexit, hs, scloses, sdisc, started, cli, link, s2c, cfin, sfin,
                   sent, echoed, wsrc, crcvd>>

\* Faulty variant of HRecvEOF: the `if not data` branch logs and has no
\* `break`, so the handler stays in its loop.
HRecvEOFLoops(i) ==
    /\ hpc[i] = "recv"
    /\ c2s[i] = <<>> /\ cfin[i] /\ link[i] \in {"up", "pipe"}
    /\ hexit' = [hexit EXCEPT ![i] = "eof"]
    /\ UNCHANGED <<layer, srv, hpc, hdata, hs, scloses, sdisc, started, cli, net, hist>>

\* data = socket.recv(4096) returns b"": `if not data: break`
HRecvEOF(i) ==
    /\ hpc[i] = "recv"
    /\ c2s[i] = <<>> /\ cfin[i] /\ link[i] \in {"up", "pipe"}
    /\ HandlerExit(i, "eof")
    /\ UNCHANGED <<layer, srv, hs, started, cli, c2s, s2c, cfin, hist>>

\* Faulty variant of AfterWrite: the handler calls send() in place of
\* sendall() and goes back to recv() after one write, complete or not.
AfterWriteOnce(k, n) == "recv"

\* handle_client: where the handler stands after a write of k of the n bytes
\* it has left: sendall() returns only when all of them are written.
AfterWrite(k, n) == IF k = n THEN "recv" ELSE "send"

\* socket.sendall(data): one partial write of the loop inside sendall. A write
\* to a peer that has closed is taken by the kernel and answered by RST, which
\* may or may not have arrived by the handler's next call. The peer's FIN came
\* first, so a later recv() still returns b"" and only a later write fails.
HSend(i) ==
    /\ hpc[i] = "send"
    /\ link[i] = "up"
    /\ LET t == SendTarget(i) IN
       IF cfin[t]
         THEN /\ echoed' = [echoed EXCEPT ![t] = @ \o hdata[i]]
              /\ wsrc' = [wsrc EXCEPT ![t] = @ \cup {i}]
              /\ hdata' = [hdata EXCEPT ![i] = <<>>]
              /\ \E arrived \in BOOLEAN :
                   link' = [link EXCEPT ![t] = IF arrived THEN "pipe" ELSE @]
              /\ hpc' = [hpc EXCEPT ![i] = "recv"]
              /\ UNCHANGED s2c
         ELSE /\ Len(s2c[t]) < Cap
              /\ \E k \in 1..Min(Cap - Len(s2c[t]), Len(hdata[i])) :
                   /\ s2c' = [s2c EXCEPT ![t] = @ \o Take(hdata[i], k)]
                   /\ echoed' = [echoed EXCEPT ![t] = @ \o Take(hdata[i], k)]
                   /\ hdata' = [hdata EXCEPT ![i] = Drop(@, k)]
                   /\ hpc' = [hpc EXCEPT ![i] = AfterWrite(k, Len(hdata[i]))]
              /\ wsrc' = [wsrc EXCEPT ![t] = @ \cup {i}]
              /\ UNCHANGED link
    /\ UNCHANGED <<layer, srv, hexit, hs, scloses, sdisc, started, cli, c2s, cfin, sfin,
                   sent, rcvd, crcvd>>

\* recv() or sendall() raises ConnectionResetError: `except ConnectionResetError`
HReset(i) ==
    /\ hpc[i] \in {"recv", "send"}
    /\ link[i] = "rst"
    /\ HandlerExit(i, "reset")
    /\ UNCHANGED <<layer, srv, hs, started, cli, c2s, s2c, cfin, hist>>

\* tls_server.handle_client: recv() or sendall() raises ssl.SSLError
HSSLError(i) ==
    /\ layer = "tls"
    /\ hpc[i] \in {"recv", "send"}
    /\ HandlerExit(i, "sslerr")
    /\ UNCHANGED <<layer, srv, hs, started, cli, c2s, s2c, cfin, hist>>

\* recv() or sendall() raises another exception on the aborted connection
\* (BrokenPipeError): no except clause matches, `finally` runs, the thread dies.
HOtherError(i) ==
    /\ hpc[i] \in {"recv", "send"}
    /\ link[i] = "rst" \/ (link[i] = "pipe" /\ hpc[i] = "send")
    /\ HandlerExit(i, "error")
    /\ UNCHANGED <<layer, srv, hs, started, cli, c2s, s2c, cfin, hist>>

Handler(i) ==
    \/ HRecv(i) \/ HRecvEOF(i) \/ HSend(i)
    \/ HReset(i) \/ HSSLError(i) \/ HOtherError(i)

(* --------------------------- server main ----------------------------- *)
\* The server process ends with exit code `code` because of `why`: daemon=True
\* handler threads are not waited for, and the kernel closes every socket the
\* process holds (a connection with unread data, or one never accepted, is
\* aborted).
ProcessExit(code, why) ==
    /\ spc' = "exited"
    /\ sexit' = code
    /\ swhy' = why
    /\ cur' = 0
    /\ backlog' = <<>>
    /\ hpc' = [i \in Conn |-> IF hpc[i] \in {"recv", "send"} THEN "killed" ELSE hpc[i]]
    /\ hdata' = [i \in Conn |-> <<>>]
    /\ sfin' = [i \in Conn |-> sfin[i] \/ link[i] # "none"]
    /\ link' = [i \in Conn |->
                  IF link[i] = "up" /\ ~sfin[i] /\ (c2s[i] # <<>> \/ hpc[i] = "none")
                    THEN "rst" ELSE link[i]]

\* main's `finally: server.close()`, after which main, and the process, end.
MainEnds(code, why) ==
    /\ listening' = FALSE
    /\ ProcessExit(code, why)

\* Faulty variant of ServerLoadCert: a load_cert_chain failure is caught and
\* logged, and main goes on to bind and listen.
ServerLoadCertGoesOn ==
    /\ layer = "tls" /\ spc = "start"
    /\ spc' = "loaded"
    /\ \E ok \in BOOLEAN : swhy' = IF ok THEN swhy ELSE "trust_material"
    /\ UNCHANGED <<layer, listening, backlog, cur, sexit, hnd, cli, net, hist>>

\* tls_server.main: context.load_cert_chain(...), before the socket is bound.
\* A failure is an uncaught exception outside the try: exit code 1.
ServerLoadCert ==
    /\ layer = "tls" /\ spc = "start"
    /\ \E ok \in BOOLEAN :
         IF ok THEN /\ spc' = "loaded"
                    /\ UNCHANGED <<sexit, swhy, cur, backlog, hpc, hdata, sfin, link>>
               ELSE ProcessExit(1, "trust_material")
    /\ UNCHANGED <<layer, listening, hexit, hs, scloses, sdisc, started, cli, c2s, s2c, cfin, hist>>

\* server.bind((host, port)); server.listen(5). A failed bind (address in
\* use) is an uncaught exception outside the try: exit code 1.
ServerBind ==
    /\ spc = (IF layer = "tls" THEN "loaded" ELSE "start")
    /\ \E ok \in BOOLEAN :
         IF ok THEN /\ spc' = "accept" /\ listening' = TRUE
                    /\ UNCHANGED <<sexit, swhy, cur, backlog, hpc, hdata, sfin, link>>
               ELSE /\ ProcessExit(1, "bind")
                    /\ UNCHANGED listening
    /\ UNCHANGED <<layer, hexit, hs, scloses, sdisc, started, cli, c2s, s2c, cfin, hist>>

\* client_socket, address = server.accept(), then (TCP) thread.start() or
\* (TLS) the entry into context.wrap_socket(client_socket, server_side=True).
ServerAccept ==
    /\ spc = "accept"
    /\ backlog # <<>>
    /\ LET i == Head(backlog) IN
       /\ backlog' = Tail(backlog)
       /\ IF layer = "tcp"
            THEN /\ StartHandler(i)
                 /\ UNCHANGED <<spc, cur, hs>>
            ELSE /\ spc' = "wrap"
                 /\ cur' = i
                 /\ hs' = [hs EXCEPT ![i] = "pending"]
                 /\ UNCHANGED <<hpc, hdata, hexit, started, scloses, sfin, link>>
    /\ UNCHANGED <<layer, listening, sexit, swhy, sdisc, cli, c2s, s2c, cfin, hist>>

\* server.accept() raises OSError (ECONNABORTED, EMFILE, ...): the only
\* except clause of main is KeyboardInterrupt, so the exception leaves main.
ServerAcceptError ==
    /\ spc = "accept"
    /\ MainEnds(1, "accept_error")
    /\ UNCHANGED <<layer, hexit, hs, scloses, sdisc, started, cli, c2s, s2c, cfin, hist>>

\* tls_server.main: close() calls of the accept loop when wrap_socket raises
\* ssl.SSLError: `except ssl.SSLError: client_socket.close(); continue`.
WrapSSLErrorCloses(i) == 1

\* Faulty variant of WrapFailureContinues: the except clause has no
\* `continue` and falls through to thread.start().
WrapFailureFallsThrough(i) == FALSE

\* tls_server.main: the except clause ends with `continue`: no handler thread
\* is started for the connection.
WrapFailureContinues(i) == TRUE

\* wrap_socket raises ssl.SSLError (the peer sent an alert, spoke no TLS,
\* shares no cipher or version, or ended the stream). wrap_socket has detached
\* the raw socket and closes the connection itself before it re-raises.
WrapSSLError ==
    /\ spc = "wrap"
    /\ cpc[cur] # "silent"
    /\ hs' = [hs EXCEPT ![cur] = "ssl_error"]
    /\ ServerEndpointClose(cur)
    /\ spc' = "wrapfail"
    /\ UNCHANGED <<layer, listening, backlog, cur, sexit, swhy, hpc, hdata, hexit,
                   scloses, sdisc, started, cli, c2s, s2c, cfin, hist>>

\* `except ssl.SSLError: print(...); client_socket.close(); continue`: the
\* close() of the raw socket, which is closed already. Were close() to raise,
\* the exception would leave main as any other does.
WrapFailClose ==
    /\ spc = "wrapfail"
    /\ LET i == cur IN
       /\ scloses' = [scloses EXCEPT ![i] = @ + WrapSSLErrorCloses(i)]
       /\ IF WrapSSLErrorCloses(i) > 0 /\ SocketClose(ServerEndpoint(i)).raised
            THEN MainEnds(1, "wrap_error")
            ELSE /\ spc' = "accept"
                 /\ cur' = 0
                 /\ IF WrapSSLErrorCloses(i) > 0
                      THEN ServerEndpointClose(i)
                      ELSE UNCHANGED <<sfin, link>>
                 /\ IF WrapFailureContinues(i)
                      THEN UNCHANGED hpc
                      ELSE hpc' = [hpc EXCEPT ![i] = "recv"]
                 /\ UNCHANGED <<listening, backlog, sexit, swhy, hdata>>
    /\ UNCHANGED <<layer, hexit, hs, sdisc, started, cli, c2s, s2c, cfin, hist>>

\* wrap_socket raises an OSError that is no ssl.SSLError (ConnectionResetError:
\* the peer process was killed or gave up during the handshake). `except ssl.SSLError` does not
\* match, `except KeyboardInterrupt` does not match: the exception leaves main.
WrapOSError ==
    /\ spc = "wrap"
    /\ cfin[cur] /\ cerr[cur] = "other"
    /\ hs' = [hs EXCEPT ![cur] = "os_error"]
    /\ MainEnds(1, "wrap_error")
    /\ UNCHANGED <<layer, hexit, scloses, sdisc, started, cli, c2s, s2c, cfin, hist>>

\* Faulty variant of ServerInterrupt: the interrupt is caught inside the loop
\* body, logged, and the loop goes on.
ServerInterruptIgnored ==
    /\ spc \in {"accept", "wrap"} /\ swhy = "none"
    /\ swhy' = "interrupt"
    /\ UNCHANGED <<layer, spc, listening, backlog, cur, sexit, hnd, cli, net, hist>>

\* KeyboardInterrupt in the accept loop (in accept() or in wrap_socket()):
\* `except KeyboardInterrupt: print("Shutting down")`, exit code 0.
ServerInterrupt ==
    /\ spc \in {"accept", "wrap"}
    /\ MainEnds(0, "interrupt")
    /\ UNCHANGED <<layer, hexit, hs, scloses, sdisc, started, cli, c2s, s2c, cfin, hist>>

Server ==
    \/ ServerLoadCert \/ ServerBind \/ ServerAccept \/ ServerAcceptError
    \/ WrapSSLError \/ WrapFailClose \/ WrapOSError \/ ServerInterrupt

(* --------------------------- client driver --------------------------- *)
RECURSIVE SumTo(_, _)
SumTo(f, n) == IF n = 0 THEN 0 ELSE f[n] + SumTo(f, n - 1)

\* Lines read so far by all the drivers.
TotalInputs == SumTo(nInputs, NConn)

\* tls_client.main: the report printed after `except SSLCertVerificationError`
VerifyFailedReport == "certificate_verification_failed"

\* Faulty variant of RefusedReport: one report for both connect failures.
RefusedReportSame == VerifyFailedReport

\* main: the report printed after `except ConnectionRefusedError`
RefusedReport == "connection_refused"

\* tls_client.main: the exit code after `except ssl.SSLCertVerificationError`
VerifyFailedExit == 1

\* main: the exit code after `except ConnectionRefusedError`
RefusedExit == 1

\* Faulty variant of ClientCloses: the message loop has no `finally`.
ClientNeverCloses(i) == 0

\* main: `finally: socket.close()` around the message loop.
ClientCloses(i) == 1

\* Faulty variant of ClientEnds: the except clauses report and return from
\* main instead of calling sys.exit(1), so every driver ends with code 0.
ClientEndsZero(i, code, report) ==
    /\ cexit' = [cexit EXCEPT ![i] = 0]
    /\ cout' = [cout EXCEPT ![i] = report]

\* Faulty variant of SendsOnInput: no `if not message: continue`.
SendsOnAnyInput(m) == TRUE

\* main: `if not message: continue`, otherwise sendall(message.encode("utf-8"))
SendsOnInput(m) == m # <<>>

\* The driver process ends: its exit code and the last report it printed.
ClientEnds(i, code, report) ==
    /\ cexit' = [cexit EXCEPT ![i] = code]
    /\ cout' = [cout EXCEPT ![i] = report]

\* Faulty variant of VerifyFailPc: the except clause reports and falls through.
VerifyFailFallsThrough == "prompt"

\* tls_client.main: where the driver is after `except SSLCertVerificationError`
\* (sys.exit(1): the message loop below is never reached).
VerifyFailPc == "exited"

\* The driver ends on exception `exc` before it enters the message loop.
ClientDies(i, code, report, exc) ==
    /\ cpc' = [cpc EXCEPT ![i] = IF exc = "verify" THEN VerifyFailPc ELSE "exited"]
    /\ cerr' = [cerr EXCEPT ![i] = exc]
    /\ ClientEnds(i, code, report)

\* The driver leaves the message loop: `finally: socket.close()`, then exit.
ClientLeave(i, code, report) ==
    /\ cpc' = [cpc EXCEPT ![i] = "exited"]
    /\ ClientEnds(i, code, report)
    /\ cpend' = [cpend EXCEPT ![i] = <<>>]
    /\ ccloses' = [ccloses EXCEPT ![i] = @ + ClientCloses(i)]
    /\ IF ClientCloses(i) > 0
         THEN ClientEndpointClose(i)
         ELSE UNCHANGED <<cfin, link>>

\* tls_client.main: context.load_verify_locations(ca_cert) before the socket
\* is created; a failure is uncaught (traceback, exit code 1). The TCP client
\* has no such step.
ClientStart(i) ==
    /\ cpc[i] = "start"
    /\ \E ok \in BOOLEAN :
         IF layer = "tcp" \/ ok
           THEN /\ cpc' = [cpc EXCEPT ![i] = "connect"]
                /\ UNCHANGED <<cexit, cout, cerr>>
           ELSE ClientDies(i, 1, "traceback", "trust_material")
    /\ UNCHANGED <<layer, srv, hnd, message, cpend, nInputs, ccloses, net, hist>>

\* socket.connect((host, port)): the TCP handshake, done by the kernels. With
\* no listener it raises ConnectionRefusedError: report, sys.exit(1).
ClientConnect(i) ==
    /\ cpc[i] = "connect"
    /\ IF listening
         THEN /\ link' = [link EXCEPT ![i] = "up"]
              /\ backlog' = Append(backlog, i)
              /\ cpc' = [cpc EXCEPT ![i] = IF layer = "tcp" THEN "prompt" ELSE "handshake"]
              /\ UNCHANGED <<cexit, cout, cerr>>
         ELSE /\ ClientDies(i, RefusedExit, RefusedReport, "refused")
              /\ UNCHANGED <<link, backlog>>
    /\ UNCHANGED <<layer, spc, listening, cur, sexit, swhy, hnd, message, cpend,
                   nInputs, ccloses, c2s, s2c, cfin, sfin, hist>>

\* tls_client.main: connect() raises ssl.SSLCertVerificationError once the
\* server has presented its certificate: report, sys.exit(1).
ClientVerifyFail(i) ==
    /\ layer = "tls"
    /\ cpc[i] = "handshake"
    /\ spc = "wrap" /\ cur = i
    /\ ClientDies(i, VerifyFailedExit, VerifyFailedReport, "verify")
    /\ ClientEndpointClose(i)
    /\ UNCHANGED <<layer, srv, hnd, message, cpend, nInputs, ccloses,
                   c2s, s2c, sfin, hist>>

\* main: connect() raises something else (a timeout, KeyboardInterrupt, and
\* during the TLS handshake another ssl.SSLError or a reset), or the driver
\* process is killed in connect(): uncaught, traceback. The kernel closes the
\* socket with the process.
ClientConnectError(i) ==
    /\ cpc[i] \in {"connect", "handshake"}
    /\ ClientDies(i, 1, "traceback", "other")
    /\ ClientEndpointClose(i)
    /\ UNCHANGED <<layer, srv, hnd, message, cpend, nInputs, ccloses,
                   c2s, s2c, sfin, hist>>

\* The peer of a connection the TLS server has accepted sends nothing, or
\* nothing more, of the handshake and keeps the connection open (a stalled
\* client, a port probe, `nc`): wrap_socket(), which sets no timeout, waits.
PeerStalls(i) ==
    /\ layer = "tls"
    /\ cpc[i] = "handshake"
    /\ cpc' = [cpc EXCEPT ![i] = "silent"]
    /\ UNCHANGED <<layer, srv, hnd, message, cpend, nInputs, cexit, cout,
                   ccloses, cerr, net, hist>>

\* The TLS handshake completes on both sides: wrap_socket() returns in the
\* server, which starts the handler thread; connect() returns in the client.
HandshakeOK(i) ==
    /\ spc = "wrap" /\ cur = i
    /\ cpc[i] = "handshake" /\ link[i] = "up"
    /\ hs' = [hs EXCEPT ![i] = "ok"]
    /\ StartHandler(i)
    /\ spc' = "accept"
    /\ cur' = 0
    /\ cpc' = [cpc EXCEPT ![i] = "prompt"]
    /\ UNCHANGED <<layer, listening, backlog, sexit, swhy, sdisc, message,
                   cpend, nInputs, cexit, cout, ccloses, cerr, c2s, s2c, cfin, hist>>

\* message = input("> "), one of `lines`; `if not message: continue`; else
\* sendall is entered.
ReadLine(i, lines) ==
    /\ cpc[i] = "prompt"
    /\ TotalInputs < MaxInputs
    /\ \E m \in lines :
         /\ message' = [message EXCEPT ![i] = m]
         /\ IF SendsOnInput(m)
              THEN /\ cpend' = [cpend EXCEPT ![i] = Encode(m)]
                   /\ cpc' = [cpc EXCEPT ![i] = "send"]
              ELSE UNCHANGED <<cpend, cpc>>
    /\ nInputs' = [nInputs EXCEPT ![i] = @ + 1]
    /\ UNCHANGED <<layer, srv, hnd, cexit, cout, ccloses, cerr, net, hist>>

\* The user types a short line.
ClientInput(i) == ReadLine(i, Lines)

\* The user types, or pipes in, the long line.
ClientInputLong(i) == ReadLine(i, {LongLine})

\* socket.sendall(...): one partial write of the loop inside sendall. A write
\* to a server endpoint that is closed is taken by the kernel and answered by
\* RST, which may or may not have arrived by the driver's recv(). The server's
\* FIN came first, so that recv() returns b"" either way.
ClientSend(i) ==
    /\ cpc[i] = "send"
    /\ link[i] = "up"
    /\ IF sfin[i]
         THEN /\ sent' = [sent EXCEPT ![i] = @ \o cpend[i]]
              /\ cpend' = [cpend EXCEPT ![i] = <<>>]
              /\ \E arrived \in BOOLEAN :
                   link' = [link EXCEPT ![i] = IF arrived THEN "pipe" ELSE @]
              /\ cpc' = [cpc EXCEPT ![i] = "recv"]
              /\ UNCHANGED c2s
         ELSE /\ Len(c2s[i]) < Cap
              /\ \E k \in 1..Min(Cap - Len(c2s[i]), Len(cpend[i])) :
                   /\ c2s' = [c2s EXCEPT ![i] = @ \o Take(cpend[i], k)]
                   /\ sent' = [sent EXCEPT ![i] = @ \o Take(cpend[i], k)]
                   /\ cpend' = [cpend EXCEPT ![i] = Drop(@, k)]
                   /\ cpc' = [cpc EXCEPT ![i] =
                                IF k = Len(cpend[i]) THEN "recv" ELSE "send"]
              /\ UNCHANGED link
    /\ UNCHANGED <<layer, srv, hnd, message, nInputs, cexit, cout, ccloses,
                   cerr, s2c, cfin, sfin, rcvd, echoed, wsrc, crcvd>>

\* data = socket.recv(4096), data non-empty; print(data.decode("utf-8")). A
\* chunk that ends inside a character raises UnicodeDecodeError: uncaught,
\* `finally` closes, traceback.
ClientRecv(i) ==
    /\ cpc[i] = "recv"
    /\ s2c[i] # <<>>
    /\ \E k \in RecvSizes(Len(s2c[i])) :
         /\ crcvd' = [crcvd EXCEPT ![i] = @ \o Take(s2c[i], k)]
         /\ s2c' = [s2c EXCEPT ![i] = Drop(@, k)]
         /\ IF Decodable(Take(s2c[i], k))
              THEN /\ cpc' = [cpc EXCEPT ![i] = "prompt"]
                   /\ cout' = [cout EXCEPT ![i] = "received"]
                   /\ UNCHANGED <<cexit, cpend, ccloses, cfin, link>>
              ELSE ClientLeave(i, 1, "traceback")
    /\ UNCHANGED <<layer, srv, hnd, message, nInputs, cerr, c2s, sfin,
                   sent, rcvd, echoed, wsrc>>

\* data = socket.recv(4096) returns b"": report the disconnect, break.
ClientRecvEOF(i) ==
    /\ cpc[i] = "recv"
    /\ s2c[i] = <<>> /\ sfin[i] /\ link[i] \in {"up", "pipe"}
    /\ ClientLeave(i, 0, "server_closed")
    /\ UNCHANGED <<layer, srv, hnd, message, nInputs, cerr, c2s, s2c, sfin, hist>>

\* sendall() or recv() raises (ConnectionResetError, BrokenPipeError): no
\* except clause matches, `finally` closes, traceback.
ClientIOError(i) ==
    /\ cpc[i] \in {"send", "recv"}
    /\ link[i] = "rst" \/ (link[i] = "pipe" /\ cpc[i] = "send")
    /\ ClientLeave(i, 1, "traceback")
    /\ UNCHANGED <<layer, srv, hnd, message, nInputs, cerr, c2s, s2c, sfin, hist>>

\* KeyboardInterrupt inside the loop: `except KeyboardInterrupt`, `finally`.
ClientInterrupt(i) ==
    /\ cpc[i] \in {"prompt", "send", "recv"}
    /\ ClientLeave(i, 0, "closing")
    /\ UNCHANGED <<layer, srv, hnd, message, nInputs, cerr, c2s, s2c, sfin, hist>>

Client(i) ==
    \/ ClientStart(i) \/ ClientConnect(i) \/ ClientVerifyFail(i)
    \/ ClientConnectError(i) \/ ClientInput(i) \/ ClientSend(i)
    \/ ClientRecv(i) \/ ClientRecvEOF(i) \/ ClientIOError(i) \/ ClientInterrupt(i)
    \/ PeerStalls(i)

(* --------------------------- specification --------------------------- *)
Next ==
    \/ Server
    \/ \E i \in Conn : Handler(i) \/ HandshakeOK(i) \/ Client(i)

Spec == Init /\ [][Next]_vars

\* The service with one client, whose user enters long lines.
LongClient(i) ==
    \/ ClientStart(i) \/ ClientConnect(i) \/ ClientVerifyFail(i)
    \/ ClientConnectError(i) \/ ClientInputLong(i) \/ ClientSend(i)
    \/ ClientRecv(i) \/ ClientRecvEOF(i) \/ ClientIOError(i) \/ ClientInterrupt(i)
    \/ PeerStalls(i)

LongNext ==
    \/ Server
    \/ Handler(1) \/ HandshakeOK(1) \/ LongClient(1)

LongSpec == Init /\ [][LongNext]_vars

(* ------------------------------ claims ------------------------------- *)
\* The handling of connection i by the server has ended: its handler left
\* its loop, or was ended with the process, or its TLS handshake failed.
HandlingEnded(i) ==
    \/ hpc[i] \in {"closed", "killed"}
    \/ hs[i] \in {"ssl_error", "os_error"}

\* C1. Echo content preservation: on every connection the bytes the handler
\* has written back are a prefix of the bytes it has read, which are a prefix
\* of the bytes the client has sent, whatever chunks the reads returned; and
\* whenever the handler waits in recv() with nothing left in flight, and when
\* it has seen the zero-byte read of an orderly close, the bytes written back
\* are exactly the bytes the client sent, in order.
C1_EchoPreservesContent ==
    \A i \in Conn :
        /\ IsPrefix(echoed[i], Flat(rcvd[i]))
        /\ IsPrefix(Flat(rcvd[i]), sent[i])
        /\ (hpc[i] = "recv" /\ c2s[i] = <<>> /\ link[i] = "up") => echoed[i] = sent[i]
        /\ hexit[i] = "eof" => echoed[i] = sent[i]

\* C1 witness: a session ended by an orderly close in which one two-byte
\* character was split across two reads and a later message was read too.
C1_Witness ==
    \E i \in Conn :
        /\ hexit[i] = "eof"
        /\ Len(rcvd[i]) >= 3
        /\ Len(rcvd[i][1]) = 1 /\ Len(rcvd[i][2]) = 1
        /\ echoed[i] = sent[i]

\* C2. Session isolation: every byte written to connection i was read from
\* connection i by the handler of connection i, and what client i reads is a
\* prefix of what client i sent; nothing crosses between sessions.
C2_SessionIsolation ==
    \A i \in Conn :
        /\ wsrc[i] \subseteq {i}
        /\ IsPrefix(crcvd[i], sent[i])
        /\ IsPrefix(crcvd[i] \o s2c[i], echoed[i])

\* C2 witness: on the TCP server two handlers hold different data at the
\* same time, each between its read and its echo, while part of an echo is
\* in flight to a client.
C2_Witness ==
    /\ layer = "tcp"
    /\ hpc[1] = "send" /\ hpc[2] = "send"
    /\ hdata[1] # hdata[2]
    /\ \E i \in Conn : s2c[i] # <<>>

\* C3. Every connection whose handling has ended is closed, and the server
\* program closed no connection twice: the handler's `finally` and the accept
\* loop's close after a failed handshake never both act on one connection.
C3_ClosedExactlyOnce ==
    \A i \in Conn :
        /\ scloses[i] <= 1
        /\ HandlingEnded(i) => sfin[i]
        /\ (hpc[i] = "closed" \/ (hs[i] = "ssl_error" /\ cur # i)) => scloses[i] = 1

\* C3 witness: while the server runs, one connection was closed by the accept
\* loop after a failed handshake and another by its handler on a reset.
C3_Witness ==
    /\ spc = "accept"
    /\ \E i, j \in Conn :
         /\ hs[i] = "ssl_error" /\ scloses[i] = 1 /\ hpc[i] = "none"
         /\ hexit[j] = "reset" /\ scloses[j] = 1

\* A step in which connection i suffers a per-connection error: its TLS
\* handshake ends without completing, or its handler meets a reset.
PerConnectionError(i) ==
    \/ hs[i] = "pending" /\ hs'[i] \in {"ssl_error", "os_error"}
    \/ hexit[i] = "none" /\ hexit'[i] = "reset"

\* C4 (as claimed). A per-connection error never ends the accept loop and
\* never changes another session: the server still accepts after the step
\* and every other handler is where it was.
C4_ErrorsIsolated ==
    [][\A i \in Conn :
         PerConnectionError(i) =>
            /\ spc' # "exited"
            /\ listening'
            /\ \A j \in Conn \ {i} : hpc'[j] = hpc[j] /\ sfin'[j] = sfin[j]]_vars

\* C5 (as claimed). The only transition that leaves the accept loop is the
\* interrupt, which ends the server with exit code 0.
C5_OnlyInterruptLeavesLoop ==
    [][(spc \in {"accept", "wrap", "wrapfail"}
          /\ spc' \notin {"accept", "wrap", "wrapfail"})
          => sexit' = 0]_vars

\* C6. TLS server: after a failed handshake the raw connection is closed, no
\* handler was started for it and no application byte was read from or
\* written to it; a handler exists only on a connection whose handshake
\* completed.
C6_FailedHandshakeNeverServed ==
    \A i \in Conn :
        /\ hs[i] \in {"ssl_error", "os_error"} =>
              /\ sfin[i]
              /\ hpc[i] = "none"
              /\ rcvd[i] = <<>> /\ echoed[i] = <<>>
        /\ (layer = "tls" /\ hpc[i] # "none") => hs[i] = "ok"

\* C6 witness: the handshake of one connection failed and was closed by the
\* accept loop, which went on to serve another connection's session.
C6_Witness ==
    \E i, j \in Conn :
        /\ hs[i] = "ssl_error" /\ sfin[i]
        /\ hs[j] = "ok" /\ echoed[j] # <<>>

\* C7. TLS client: after a certificate verification failure the driver is
\* out: it read no line, sent no byte and received no byte.
C7_NoBytesAfterVerifyFailure ==
    \A i \in Conn :
        cerr[i] = "verify" =>
            /\ cpc[i] = "exited"
            /\ nInputs[i] = 0
            /\ sent[i] = <<>> /\ crcvd[i] = <<>> /\ c2s[i] = <<>>

\* C7 witness: one client failed verification while the server went on and
\* echoed to another client.
C7_Witness ==
    \E i, j \in Conn :
        /\ cerr[i] = "verify"
        /\ crcvd[j] # <<>>

\* C8. A driver ended by a refused connection and a driver ended by a
\* verification failure printed different reports, and both exit codes are
\* non-zero.
C8_RefusedAndUntrustedDistinct ==
    \A i, j \in Conn :
        /\ (cerr[i] = "refused" /\ cerr[j] = "verify") => cout[i] # cout[j]
        /\ cerr[i] \in {"refused", "verify"} => cexit[i] > 0

\* C8 witness: in one run one driver was refused and another failed
\* verification.
C8_Witness ==
    \E i, j \in Conn : cerr[i] = "refused" /\ cerr[j] = "verify"

\* C9. A step in which driver i reads an empty line leaves the transport,
\* the bytes sent and received and every close count unchanged, and the
\* driver is at its prompt again.
C9_EmptyLineNoNetwork ==
    [][\A i \in Conn :
         (nInputs'[i] = nInputs[i] + 1 /\ message'[i] = <<>>) =>
            /\ UNCHANGED <<net, hist, ccloses, cpend>>
            /\ cpc'[i] = "prompt"]_vars

\* C9 witness: a connected driver read an empty line and then a non-empty
\* one, which it is sending.
C9_Witness ==
    \E i \in Conn :
        /\ nInputs[i] = 2
        /\ cpc[i] = "send" /\ sent[i] = <<>>
        /\ link[i] = "up"

\* The driver of connection i has left its message loop.
LeftLoop(i) == cpc[i] = "exited" /\ cerr[i] = "none"

\* C10. A driver that has left its message loop, by whichever way, has
\* closed its connection exactly once; a zero-byte response is reported as a
\* disconnect; and from then on nothing is sent or received by it.
C10_LoopExitCloses ==
    /\ [](\A i \in Conn : LeftLoop(i) => ccloses[i] = 1 /\ cfin[i])
    /\ [](\A i \in Conn : cpc[i] # "exited" => ccloses[i] = 0)
    /\ [][\A i \in Conn :
            LeftLoop(i) => /\ sent'[i] = sent[i] /\ crcvd'[i] = crcvd[i]
                           /\ nInputs'[i] = nInputs[i]
                           /\ LeftLoop(i)']_vars

\* C10 witness: two ways out in one run: one driver left on a zero-byte
\* response and reported the disconnect, another on an exception raised in
\* the loop; both closed their connection once.
C10_Witness ==
    \E i, j \in Conn :
        /\ LeftLoop(i) /\ cout[i] = "server_closed" /\ ccloses[i] = 1
        /\ LeftLoop(j) /\ cout[j] = "traceback" /\ ccloses[j] = 1

\* C11 (as claimed). After the server was shut down by an interrupt while
\* the session of client i was open (its handler was still running), a read
\* of client i that has no echo left to return returns zero bytes: unless the
\* user interrupts it, the step that ends the read reports the disconnect
\* and leaves the loop with exit code 0.
C11_ShutdownReadsZero ==
    [][\A i \in Conn :
         ( /\ spc = "exited" /\ sexit = 0 /\ hpc[i] = "killed"
           /\ cpc[i] = "recv" /\ s2c[i] = <<>>
           /\ cpc'[i] # "recv" /\ cout'[i] # "closing" )
            => /\ cout'[i] = "server_closed"
               /\ cexit'[i] = 0
               /\ LeftLoop(i)']_vars

\* C12. Exit codes. A server ended by the interrupt exits with 0, one ended
\* by a failed bind or by unloadable certificate material with a non-zero
\* code; a driver that left its loop on an interrupt or on the peer's
\* disconnect exits with 0, one ended by a refused connection, a failed
\* verification or an unloadable CA file with a non-zero code; a process that
\* still runs has no exit code.
C12_ExitCodes ==
    /\ swhy = "interrupt" => sexit = 0
    /\ swhy \in {"bind", "trust_material"} => sexit > 0
    /\ swhy = "none" <=> sexit = -1
    /\ \A i \in Conn :
         /\ (cpc[i] = "exited" /\ cout[i] \in {"closing", "server_closed"})
               => cexit[i] = 0
         /\ cerr[i] \in {"refused", "verify", "trust_material"} => cexit[i] > 0
         /\ cpc[i] # "exited" => cexit[i] = -1

\* C12 witness: the server was interrupted and exited with 0; one driver was
\* disconnected by it and exited with 0, another then found no listener and
\* exited with 1.
C12_Witness ==
    /\ swhy = "interrupt" /\ sexit = 0
    /\ \E i, j \in Conn :
         /\ cout[i] = "server_closed" /\ cexit[i] = 0
         /\ cerr[j] = "refused" /\ cexit[j] = 1

\* C13. Closing a connection that is closed already changes nothing and
\* raises nothing: in the step in which the accept loop closes the raw socket
\* after a failed wrap_socket, which has closed the connection before, the
\* connection and the bytes in flight stay as they are, no disconnect is
\* logged and the loop goes on to accept(). And the server logs at most one
\* disconnect event per connection, by the handler that has then ended.
C13_CloseIdempotent ==
    /\ [][\A i \in Conn :
            (sfin[i] /\ scloses'[i] = scloses[i] + 1) =>
               /\ sfin'[i] /\ link'[i] = link[i]
               /\ c2s'[i] = c2s[i] /\ s2c'[i] = s2c[i]
               /\ sdisc'[i] = sdisc[i]
               /\ spc' = "accept" /\ sexit' = sexit]_vars
    /\ [](\A i \in Conn : sdisc[i] <= 1 /\ (sdisc[i] = 1 => hpc[i] = "closed"))

\* C13 witness: the raw socket of a failed handshake was closed a second
\* time by the accept loop, which is accepting again, and the handler of
\* another connection has logged its one disconnect.
C13_Witness ==
    /\ spc = "accept"
    /\ \E i, j \in Conn :
         /\ hs[i] = "ssl_error" /\ sfin[i] /\ scloses[i] = 1
         /\ sdisc[j] = 1

\* C14. The session handler is ACTIVE (in recv or in sendall, its connection
\* open) until the step in which it observes a zero-byte read, a reset or an
\* error, and CLOSED from then on. The step that observes a zero-byte read
\* or a reset writes nothing and closes the connection; a zero-byte read is
\* observed only on an emptied stream the peer has closed. Once CLOSED the
\* handler stays CLOSED and neither reads, writes nor closes again.
C14_HandlerStateMachine ==
    /\ [](\A i \in Conn :
            /\ hpc[i] \in {"recv", "send"} => hexit[i] = "none" /\ ~sfin[i]
            /\ hpc[i] = "closed" <=> hexit[i] # "none"
            /\ hpc[i] = "closed" => sfin[i])
    /\ [][\A i \in Conn :
            /\ (hexit[i] = "none" /\ hexit'[i] # "none") =>
                  /\ hpc[i] \in {"recv", "send"} /\ hpc'[i] = "closed"
                  /\ echoed'[i] = echoed[i] /\ s2c'[i] = s2c[i]
                  /\ sfin'[i]
                  /\ hexit'[i] = "eof" => (hpc[i] = "recv" /\ c2s[i] = <<>> /\ cfin[i])
            /\ hpc[i] = "closed" =>
                  /\ hpc'[i] = "closed" /\ hexit'[i] = hexit[i]
                  /\ rcvd'[i] = rcvd[i] /\ echoed'[i] = echoed[i]
                  /\ scloses'[i] = scloses[i] /\ sfin'[i]]_vars

\* C14 witness: one handler went to CLOSED on a zero-byte read after it had
\* echoed, another on a reset met inside sendall with part of its chunk not
\* written.
C14_Witness ==
    \E i, j \in Conn :
        /\ hexit[i] = "eof" /\ echoed[i] # <<>> /\ hpc[i] = "closed"
        /\ hexit[j] = "reset" /\ echoed[j] # Flat(rcvd[j]) /\ hpc[j] = "closed"

\* C15. Exclusive ownership. At most one handler thread is started per
\* connection and a connection has a handler exactly if one was started for
\* it; what is written to a connection was read from it by its own handler;
\* and every read, write and close on a connection that has a handler is a
\* step of that handler (in recv, in sendall, leaving its loop) during which
\* the accept loop does not move.
C15_ExclusiveOwnership ==
    /\ [](\A i \in Conn :
            /\ started[i] <= 1
            /\ hpc[i] # "none" <=> started[i] = 1
            /\ wsrc[i] \subseteq {i})
    /\ [][\A i \in Conn :
            /\ rcvd'[i] # rcvd[i] => (hpc[i] = "recv" /\ spc' = spc)
            /\ echoed'[i] # echoed[i] => (hpc[i] = "send" /\ spc' = spc)
            /\ (hpc'[i] # "none" /\ scloses'[i] # scloses[i]) =>
                  /\ hpc[i] \in {"recv", "send"} /\ hpc'[i] = "closed"
                  /\ spc' = spc]_vars

\* C15 witness: the accept loop is back in accept() while the handlers of
\* two connections, one thread each, are both running and have both echoed.
C15_Witness ==
    /\ spc = "accept"
    /\ \A i \in Conn :
         /\ started[i] = 1 /\ hpc[i] \in {"recv", "send"}
         /\ echoed[i] # <<>>

\* C16 (as claimed). A silent peer never holds the accept loop: the loop is
\* never inside the handshake with a peer that sends nothing while another
\* connection waits to be accepted.
C16_SilentPeerNeverHoldsAcceptLoop ==
    \A i \in Conn :
        (spc = "wrap" /\ cur = i /\ cpc[i] = "silent") => backlog = <<>>

\* C17. A server ended by a trust-material failure or by a failed bind never
\* listened: no client ever connected to it, no connection was accepted, no
\* handshake and no handler was started and nothing was read. The TLS
\* server listens only once its certificate is loaded. A TLS client ended by
\* an unloadable CA file never connected, read no line and sent nothing.
C17_StartupErrorsBeforeAnyAccept ==
    /\ swhy \in {"trust_material", "bind"} =>
         /\ ~listening /\ backlog = <<>>
         /\ \A i \in Conn :
              /\ link[i] = "none" /\ hs[i] = "none"
              /\ hpc[i] = "none" /\ started[i] = 0
              /\ rcvd[i] = <<>> /\ echoed[i] = <<>>
              /\ cpc[i] \in {"start", "connect", "exited"}
    /\ (layer = "tls" /\ listening) => spc \in {"accept", "wrap", "wrapfail"}
    /\ \A i \in Conn :
         cerr[i] = "trust_material" =>
            /\ layer = "tls" /\ cpc[i] = "exited"
            /\ link[i] = "none" /\ hs[i] = "none"
            /\ nInputs[i] = 0 /\ sent[i] = <<>>

\* C17 witness: the TLS server failed at startup; one client could not load
\* its CA file, another loaded it and found no listener.
C17_Witness ==
    /\ swhy \in {"trust_material", "bind"}
    /\ \E i, j \in Conn : cerr[i] = "trust_material" /\ cerr[j] = "refused"

\* C18. Shutdown. The step in which the interrupt reaches the server stops
\* the accept loop and closes the listening endpoint, and ends every running
\* handler where it stands, without a further write. From then on the server
\* is out, the endpoint is closed, nothing waits to be accepted, no client
\* connects, and no handshake or handler is started and nothing is read or
\* echoed.
C18_ShutdownStopsAccepting ==
    /\ [](swhy = "interrupt" =>
            /\ spc = "exited" /\ ~listening /\ backlog = <<>>
            /\ \A i \in Conn : hpc[i] \notin {"recv", "send"})
    /\ [][(swhy = "none" /\ swhy' = "interrupt") =>
            /\ spc \in {"accept", "wrap"}
            /\ \A i \in Conn :
                 /\ hpc[i] \in {"recv", "send"} => hpc'[i] = "killed"
                 /\ echoed'[i] = echoed[i] /\ s2c'[i] = s2c[i]]_vars
    /\ [][swhy = "interrupt" =>
            /\ swhy' = "interrupt"
            /\ UNCHANGED <<hpc, hs, started, rcvd, echoed>>
            /\ \A i \in Conn : link[i] = "none" => link'[i] = "none"]_vars

\* C18 witness: the server was interrupted while a handler stood between its
\* read and the echo of what it read, and a client that tried to connect
\* afterwards was refused.
C18_Witness ==
    /\ swhy = "interrupt"
    /\ \E i, j \in Conn :
         /\ hpc[i] = "killed" /\ echoed[i] # Flat(rcvd[i])
         /\ cerr[j] = "refused"

\* C19 (as claimed). The chunk a driver's recv() returns after it sent
\* message m is exactly the bytes of m.
C19_ResponseIsTheMessage ==
    [][\A i \in Conn :
         (cpc[i] = "recv" /\ crcvd'[i] # crcvd[i]) =>
            Drop(crcvd'[i], Len(crcvd[i])) = Encode(message[i])]_vars

\* C20 (as claimed). No session reaches a state in which the driver is
\* blocked in sendall, the server's receive side full, while the handler is
\* blocked in its echo sendall, the client's receive side full.
C20_NoSendSendDeadlock ==
    \A i \in Conn :
        ~ ( /\ cpc[i] = "send" /\ cpend[i] # <<>> /\ Len(c2s[i]) = Cap
            /\ hpc[i] = "send" /\ hdata[i] # <<>> /\ Len(s2c[i]) = Cap
            /\ link[i] = "up" /\ ~cfin[i] /\ ~sfin[i] )

\* C21. In every state of a session the bytes the handler has written back
\* are a prefix of the bytes it has read; every chunk read, and so what is
\* read and not yet written back, is at most one buffer long; while the
\* handler is in sendall the difference is exactly what sendall has left; and
\* the handler is in recv(), and a read happens, only when everything read
\* before has been written back in full.
C21_EchoLagsByOneChunk ==
    /\ [](\A i \in Conn :
            /\ IsPrefix(echoed[i], Flat(rcvd[i]))
            /\ Len(Flat(rcvd[i])) - Len(echoed[i]) <= BUFSIZE
            /\ \A k \in 1..Len(rcvd[i]) : Len(rcvd[i][k]) \in 1..BUFSIZE
            /\ hpc[i] = "send" =>
                  (hdata[i] # <<>> /\ Flat(rcvd[i]) = echoed[i] \o hdata[i])
            /\ hpc[i] = "recv" => echoed[i] = Flat(rcvd[i]))
    /\ [][\A i \in Conn :
            rcvd'[i] # rcvd[i] => echoed[i] = Flat(rcvd[i])]_vars

\* C21 witness: a handler that has echoed an earlier chunk in full stands
\* in sendall with a chunk of the full buffer size read, part of it written
\* and part of it left.
C21_Witness ==
    \E i \in Conn :
        /\ hpc[i] = "send"
        /\ Len(rcvd[i]) >= 2 /\ Len(rcvd[i][Len(rcvd[i])]) = BUFSIZE
        /\ Len(hdata[i]) = 1
        /\ Len(echoed[i]) >= 2

====
